---- MODULE Spec2Model ----
(***************************************************************************)
(* State-machine model of the realtimesindy front-end:                     *)
(*   - pages/Main.tsx            (voice call page with the Heygen avatar)  *)
(*   - pages/ConsolePage.tsx     (developer console, no avatar)            *)
(*   - pages/StreamingSession.tsx (stand-alone avatar test page)           *)
(*   - utils/heygen.ts           (the useHeygen hook, src/unnamed/part_000)*)
(*                                                                         *)
(* An async handler is a task: a record whose pc names the await it is     *)
(* suspended at.  One action runs the synchronous code between two awaits  *)
(* (JavaScript runs it to completion); the outcome of the awaited external *)
(* call (fetch, WebRTC, recorder, realtime client) is chosen by \E.        *)
(***************************************************************************)
EXTENDS Integers, Sequences, FiniteSets, TLC

(* ------------------------------ bounds --------------------------------- *)
MaxTasks == 2      \* handler invocations (button clicks) per run
MaxSessions == 2   \* avatar sessions the server hands out per run
MaxEvents == 3     \* 'realtime.event' notifications between two resets

(* ------------------------------ values --------------------------------- *)
Null == 0          \* null or undefined: useRef(null), a missing data.data
Undefined == "undefined"  \* a missing field, e.g. item.formatted?.transcript
Greeting == "Ola, para iniciarmos o atendimento, informe o seu numero de telefone com DDD."
Pages == {"Main", "ConsolePage", "StreamingSession"}
EventTypes == {"a", "b"}
Sids == 1..MaxSessions

VARIABLES
  page,              \* the page App renders
  apiKey, serverUrl, \* the avatar credentials handed to useHeygen / StreamingSession
  hook,              \* "unmounted" | "threw" | "mounted"
  isConnected, realtimeEvents, turnDetection,
  items,             \* "empty" | "nonempty": the items state of the page
  clientConnected, recorder,
  clientItems,       \* "empty" | "nonempty": client.conversation.getItems()
  sessionInfoRef, peerConnectionRef, srcObject,
  pcLive,            \* peer connections with a remote description, not closed
  pcWired,           \* peer connections whose onicecandidate is set
  nextSid,           \* the next session id the avatar server hands out
  tasks,             \* the async handler invocations, in click order
  out,               \* the avatar requests sent by the last step
  lastAct,           \* the last step: its name and text argument
  status,            \* the last message the last step gave to heygenUpdateStatus / updateStatus
  taskInput,         \* StreamingSession's task input
  arrived,           \* types of the realtime events notified since the last reset
  userData,          \* ConsolePage's userData.phone (<<>> while unset)
  toolCall,          \* the last tool call: tool, arguments, backend answer, search key
  toolResult         \* what that call returned or threw

sessionVars == <<sessionInfoRef, peerConnectionRef, srcObject, pcLive, pcWired, nextSid>>
pageVars == <<page, apiKey, serverUrl, hook>>
uiVars == <<isConnected, realtimeEvents, items, turnDetection, arrived>>
extVars == <<clientConnected, clientItems, recorder>>
toolVars == <<userData, toolCall, toolResult>>
vars == <<pageVars, uiVars, extVars, sessionVars, tasks, out, lastAct, status, taskInput, toolVars>>

Req(ep, sid, text, sdp) == [ep |-> ep, sid |-> sid, text |-> text, sdp |-> sdp]
Act(name, texto) == [name |-> name, texto |-> texto]
NewTask(kind) ==
  [kind |-> kind, pc |-> "init", sid |-> Null, ans |-> Null,
   avatarErr |-> FALSE, threwAt |-> "", hello |-> FALSE]
Eff(t, o, s) == [t |-> t, out |-> o, status |-> s]

(* ------------------------------ useHeygen ------------------------------ *)
useHeygenGuardAnd(k, u) == k = "" /\ u = ""
useHeygenGuard(k, u) == k = "" \/ u = ""

Init ==
  /\ page \in Pages
  /\ apiKey \in (IF page = "Main" THEN {"", "k"} ELSE IF page = "ConsolePage" THEN {""} ELSE {"k"})
  /\ serverUrl \in (IF page = "Main" THEN {"", "u"} ELSE IF page = "ConsolePage" THEN {""} ELSE {"u"})
  /\ hook = "unmounted"
  /\ isConnected = FALSE /\ realtimeEvents = <<>> /\ items = "empty"
  /\ turnDetection = "none"
  /\ arrived = <<>>
  /\ clientConnected = FALSE /\ clientItems = "empty" /\ recorder = "ended"
  /\ sessionInfoRef = Null /\ peerConnectionRef = Null /\ srcObject = Null
  /\ pcLive = {} /\ pcWired = {} /\ nextSid = 1
  /\ tasks = <<>> /\ out = <<>>
  /\ lastAct = Act("init", "")
  /\ status = "" /\ taskInput = ""
  /\ userData = <<>>
  /\ toolCall = [name |-> "none"]
  /\ toolResult = [threw |-> FALSE]

\* First render of the page: Main calls useHeygen, which throws without both
\* credentials before it creates a ref; the other pages mount unconditionally.
Render ==
  /\ hook = "unmounted"
  /\ hook' = IF page = "Main" /\ useHeygenGuard(apiKey, serverUrl) THEN "threw" ELSE "mounted"
  /\ lastAct' = Act("render", "")
  /\ status' = IF page = "Main" /\ useHeygenGuard(apiKey, serverUrl)
                   THEN "Heygen -> Both apiKey and serverUrl are required." ELSE ""
  /\ out' = <<>>
  /\ UNCHANGED <<page, apiKey, serverUrl, uiVars, extVars, sessionVars, tasks, taskInput, toolVars>>

(* --------------------------- call button ------------------------------- *)
CallButtonAlwaysConnect(c) == "connect"
\* onClick={isConnected ? disconnectConversation : connectConversation}
CallButtonHandler(c) == IF c THEN "disconnect" ELSE "connect"

(* ------------------ avatar start: code between awaits ------------------ *)
\* What runs once heygenStart (Main) or createNewSession+startStreamingSession
\* (StreamingSession.handleStart) has returned: Main calls client.connect(),
\* handleStart calls sendText(greeting), whose fetch arguments read
\* sessionInfoRef.current.session_id (a TypeError, caught, when there is none).
AfterStart(t, sess, msg) ==
  IF t.kind = "connect"
  THEN Eff([t EXCEPT !.pc = "clientConnect"], <<>>, msg)
  ELSE IF sess = Null
       THEN Eff([t EXCEPT !.pc = "done"], <<>>, "Error sending text")
       ELSE Eff([t EXCEPT !.pc = "task"], <<Req("task", sess, Greeting, Null)>>, msg)

StartErrorPropagates(t, sess) ==
  Eff([t EXCEPT !.pc = "threw", !.threwAt = "avatar", !.avatarErr = TRUE], <<>>, "Error starting streaming")
\* catch of heygenStartStreamingSession: log, return normally to heygenStart
heygenStartStreamingSessionCatch(t, sess) ==
  AfterStart([t EXCEPT !.avatarErr = TRUE], sess, "Error starting streaming")

\* heygenStartStreamingSession up to its first await.  The guard
\* `!peerConnectionRef || !sessionInfoRef` tests the ref objects, which are
\* never falsy; peerConnectionRef.current!.createAnswer() throws when current is null.
heygenStartStreamingSession(t, pcref, sess, msg) ==
  IF pcref = Null
  THEN heygenStartStreamingSessionCatch(t, sess)
  ELSE Eff([t EXCEPT !.pc = "createAnswer", !.ans = pcref], <<>>, msg)

\* catch of heygenCreateNewSession: log, return; heygenStart goes on with
\* heygenStartStreamingSession.
heygenCreateNewSessionCatch(t, pcref, sess) ==
  heygenStartStreamingSession([t EXCEPT !.avatarErr = TRUE], pcref, sess, "Error creating session")

\* heygenCreateNewSession up to its first await: the streaming.new request.
heygenCreateNewSession(t) ==
  Eff([t EXCEPT !.pc = "new"], <<Req("new", Null, "", Null)>>, "")

\* A task's locals live as long as the code can still read them: `pc` until
\* it is stored in peerConnectionRef, `localDescription` until it is sent.
Scope(t) ==
  [t EXCEPT !.sid = IF t.pc = "setRemote" THEN @ ELSE Null,
            !.ans = IF t.pc \in {"createAnswer", "setLocal"} THEN @ ELSE Null]

Apply(i, e) ==
  /\ tasks' = [tasks EXCEPT ![i] = Scope(e.t)]
  /\ out' = e.out
  /\ status' = e.status

Threw(t) == [t EXCEPT !.pc = "threw", !.threwAt = t.pc]
At(i, kinds, pc) == i \in 1..Len(tasks) /\ tasks[i].kind \in kinds /\ tasks[i].pc = pc

(* --------------------------- connectConversation ----------------------- *)
\* The click: everything up to `await wavRecorder.begin()`.
connectConversation ==
  /\ isConnected' = TRUE
  /\ realtimeEvents' = <<>> /\ arrived' = <<>>
  /\ items' = clientItems
  /\ tasks' = Append(tasks, [NewTask("connect") EXCEPT !.pc = "begin"])
  /\ out' = <<>>
  /\ lastAct' = Act("connectConversation", "")
  /\ UNCHANGED <<pageVars, toolVars, turnDetection, extVars, sessionVars, taskInput>>
  /\ status' = ""

\* wavRecorder.begin() settled; Main goes on into heygenStart, ConsolePage
\* into wavStreamPlayer.connect().
RecorderBegun(i, ok) ==
  /\ At(i, {"connect"}, "begin")
  /\ lastAct' = Act("wavRecorder.begin", "")
  /\ IF ~ok
     THEN /\ Apply(i, Eff(Threw(tasks[i]), <<>>, ""))
          /\ UNCHANGED recorder
     ELSE /\ recorder' = "begun"
          /\ IF page = "Main"
             THEN Apply(i, heygenCreateNewSession(tasks[i]))
             ELSE Apply(i, Eff([tasks[i] EXCEPT !.pc = "playerConnect"], <<>>, ""))
  /\ UNCHANGED <<pageVars, toolVars, uiVars, clientConnected, clientItems, sessionVars, taskInput>>

\* wavStreamPlayer.connect() settled (ConsolePage); then client.connect().
PlayerConnected(i, ok) ==
  /\ At(i, {"connect"}, "playerConnect")
  /\ lastAct' = Act("wavStreamPlayer.connect", "")
  /\ Apply(i, Eff(IF ok THEN [tasks[i] EXCEPT !.pc = "clientConnect"] ELSE Threw(tasks[i]),
                  <<>>, ""))
  /\ UNCHANGED <<pageVars, toolVars, uiVars, extVars, sessionVars, taskInput>>

\* The streaming.new answer: the fetch or response.json() fails ("fail"), the
\* answer has no data ("nodata": sessionInfoRef.current becomes data.data and
\* the destructuring throws), or it carries a new session ("ok": the ref is
\* set, a peer connection is created and setRemoteDescription is awaited).
NewSessionAnswered(i, res) ==
  /\ At(i, {"connect", "start"}, "new")
  /\ lastAct' = Act("streaming.new", "")
  /\ IF res = "fail"
     THEN /\ Apply(i, heygenCreateNewSessionCatch(tasks[i], peerConnectionRef, sessionInfoRef))
          /\ UNCHANGED <<sessionInfoRef, nextSid>>
     ELSE IF res = "nodata"
     THEN /\ sessionInfoRef' = Null
          /\ Apply(i, heygenCreateNewSessionCatch(tasks[i], peerConnectionRef, Null))
          /\ UNCHANGED nextSid
     ELSE /\ nextSid <= MaxSessions
          /\ sessionInfoRef' = nextSid
          /\ nextSid' = nextSid + 1
          /\ Apply(i, Eff([tasks[i] EXCEPT !.pc = "setRemote", !.sid = nextSid], <<>>, ""))
  /\ UNCHANGED <<pageVars, toolVars, uiVars, extVars, peerConnectionRef, srcObject, pcLive, pcWired, taskInput>>

\* pc.setRemoteDescription settled: on success the local pc is stored in
\* peerConnectionRef; either way heygenStartStreamingSession runs next.
RemoteDescriptionSet(i, ok) ==
  /\ At(i, {"connect", "start"}, "setRemote")
  /\ lastAct' = Act("setRemoteDescription", "")
  /\ IF ok
     THEN /\ peerConnectionRef' = tasks[i].sid
          /\ pcLive' = pcLive \cup {tasks[i].sid}
          /\ Apply(i, heygenStartStreamingSession(tasks[i], tasks[i].sid, sessionInfoRef,
                                                  "Session created successfully"))
     ELSE /\ Apply(i, heygenCreateNewSessionCatch(tasks[i], peerConnectionRef, sessionInfoRef))
          /\ UNCHANGED <<peerConnectionRef, pcLive>>
  /\ UNCHANGED <<pageVars, toolVars, uiVars, extVars, sessionInfoRef, srcObject, pcWired, nextSid, taskInput>>

\* createAnswer settled; setLocalDescription is called on whatever
\* peerConnectionRef.current is now.
AnswerCreated(i, ok) ==
  /\ At(i, {"connect", "start"}, "createAnswer")
  /\ lastAct' = Act("createAnswer", "")
  /\ IF ok /\ peerConnectionRef # Null
     THEN Apply(i, Eff([tasks[i] EXCEPT !.pc = "setLocal"], <<>>, ""))
     ELSE Apply(i, heygenStartStreamingSessionCatch(tasks[i], sessionInfoRef))
  /\ UNCHANGED <<pageVars, toolVars, uiVars, extVars, sessionVars, taskInput>>

\* setLocalDescription settled: the ICE handlers are set on
\* peerConnectionRef.current, then streaming.start is sent with
\* sessionInfoRef.current.session_id and the answer made before.
LocalDescriptionSet(i, ok) ==
  /\ At(i, {"connect", "start"}, "setLocal")
  /\ lastAct' = Act("setLocalDescription", "")
  /\ IF ~ok \/ peerConnectionRef = Null
     THEN /\ Apply(i, heygenStartStreamingSessionCatch(tasks[i], sessionInfoRef))
          /\ UNCHANGED pcWired
     ELSE /\ pcWired' = pcWired \cup {peerConnectionRef}
          /\ IF sessionInfoRef = Null
             THEN Apply(i, heygenStartStreamingSessionCatch(tasks[i], sessionInfoRef))
             ELSE Apply(i, Eff([tasks[i] EXCEPT !.pc = "start"],
                               <<Req("start", sessionInfoRef, "", tasks[i].ans)>>, ""))
  /\ UNCHANGED <<pageVars, toolVars, uiVars, extVars, sessionInfoRef, peerConnectionRef, srcObject,
                 pcLive, nextSid, taskInput>>

\* The streaming.start answer.
StreamingStarted(i, ok) ==
  /\ At(i, {"connect", "start"}, "start")
  /\ lastAct' = Act("streaming.start", "")
  /\ IF ok
     THEN Apply(i, AfterStart(tasks[i], sessionInfoRef, "Streaming started successfully"))
     ELSE Apply(i, heygenStartStreamingSessionCatch(tasks[i], sessionInfoRef))
  /\ UNCHANGED <<pageVars, toolVars, uiVars, extVars, sessionVars, taskInput>>

\* client.connect() settled: the 'Ola!' message is sent, and in server_vad
\* mode wavRecorder.record is awaited.
ClientConnected(i, ok) ==
  /\ At(i, {"connect"}, "clientConnect")
  /\ lastAct' = Act("client.connect", "")
  /\ IF ok
     THEN /\ clientConnected' = TRUE
          /\ Apply(i, Eff([tasks[i] EXCEPT !.hello = TRUE,
                                           !.pc = IF turnDetection = "server_vad"
                                                  THEN "record" ELSE "done"],
                          <<>>, ""))
     ELSE /\ Apply(i, Eff(Threw(tasks[i]), <<>>, ""))
          /\ UNCHANGED clientConnected
  /\ UNCHANGED <<pageVars, toolVars, uiVars, clientItems, recorder, sessionVars, taskInput>>

\* wavRecorder.record() settled.
RecordStarted(i, ok) ==
  /\ At(i, {"connect"}, "record")
  /\ lastAct' = Act("wavRecorder.record", "")
  /\ Apply(i, Eff(IF ok THEN [tasks[i] EXCEPT !.pc = "done"] ELSE Threw(tasks[i]), <<>>, ""))
  /\ UNCHANGED <<pageVars, toolVars, uiVars, extVars, sessionVars, taskInput>>

(* ----------------------- avatar stop / disconnect ---------------------- *)
\* The continuation of disconnectConversation (Main) after `await heygenEnd()`
\* : client.disconnect(), then `await wavRecorder.end()` (isVideoLoaded, which
\* only styles the video, is not modelled).  closeSession (StreamingSession)
\* just ends.
AfterEnd(i, msg) ==
  IF tasks[i].kind = "disconnect"
  THEN /\ clientConnected' = FALSE
       /\ clientItems' = "empty"
       /\ Apply(i, Eff([tasks[i] EXCEPT !.pc = "end"], <<>>, msg))
  ELSE /\ Apply(i, Eff([tasks[i] EXCEPT !.pc = "done"], <<>>, msg))
       /\ UNCHANGED <<clientConnected, clientItems>>

\* heygenCloseSession / closeSession up to the await of streaming.stop, run
\* by task Len(tasks').  `if (!sessionInfoRef) return` tests the ref object and
\* never returns; without a session, sessionInfoRef.current.session_id throws
\* while the fetch arguments are built, and the catch logs it.
heygenCloseSession(t) ==
  IF sessionInfoRef = Null
  THEN Eff([t EXCEPT !.pc = "closed"], <<>>, "Error closing session")
  ELSE Eff([t EXCEPT !.pc = "stop"], <<Req("stop", sessionInfoRef, "", Null)>>, "")

\* The click on the call button while connected (Main, ConsolePage).
disconnectConversation ==
  /\ isConnected' = FALSE
  /\ realtimeEvents' = <<>> /\ arrived' = <<>>
  /\ items' = "empty"
  /\ lastAct' = Act("disconnectConversation", "")
  /\ IF page = "Main"
     THEN LET e == heygenCloseSession(NewTask("disconnect")) IN
          IF e.t.pc = "stop"
          THEN /\ tasks' = Append(tasks, e.t)
               /\ out' = e.out /\ status' = e.status
               /\ UNCHANGED <<clientConnected, clientItems>>
          ELSE /\ tasks' = Append(tasks, [e.t EXCEPT !.pc = "end"])
               /\ out' = e.out /\ status' = e.status
               /\ clientConnected' = FALSE
               /\ clientItems' = "empty"
     ELSE /\ tasks' = Append(tasks, [NewTask("disconnect") EXCEPT !.pc = "end"])
          /\ out' = <<>>
          /\ clientConnected' = FALSE
          /\ clientItems' = "empty"
          /\ status' = ""
  /\ UNCHANGED <<pageVars, toolVars, turnDetection, recorder, sessionVars, taskInput>>

\* The call button of Main and ConsolePage.
ClickCall ==
  /\ page \in {"Main", "ConsolePage"} /\ hook = "mounted"
  /\ Len(tasks) < MaxTasks
  /\ IF CallButtonHandler(isConnected) = "connect"
     THEN connectConversation
     ELSE disconnectConversation

\* The streaming.stop answer: on success the peer connection is closed and
\* the refs and the video's srcObject are cleared; on failure the catch only
\* logs.
SessionStopped(i, ok) ==
  /\ At(i, {"disconnect", "close"}, "stop")
  /\ lastAct' = Act("streaming.stop", "")
  /\ IF ok
     THEN /\ pcLive' = pcLive \ {peerConnectionRef}
          /\ pcWired' = pcWired \ {peerConnectionRef}
          /\ peerConnectionRef' = Null
          /\ sessionInfoRef' = Null
          /\ srcObject' = Null
          /\ AfterEnd(i, "Session closed")
     ELSE /\ AfterEnd(i, "Error closing session")
          /\ UNCHANGED <<pcLive, pcWired, peerConnectionRef, sessionInfoRef, srcObject>>
  /\ UNCHANGED <<pageVars, toolVars, isConnected, realtimeEvents, items, turnDetection, arrived,
                 recorder, nextSid, taskInput>>

\* wavRecorder.end() settled; ConsolePage then awaits wavStreamPlayer.interrupt().
RecorderEnded(i, ok) ==
  /\ At(i, {"disconnect"}, "end")
  /\ lastAct' = Act("wavRecorder.end", "")
  /\ IF ok
     THEN /\ recorder' = "ended"
          /\ Apply(i, Eff([tasks[i] EXCEPT !.pc = IF page = "Main" THEN "done" ELSE "interrupt"],
                          <<>>, ""))
     ELSE /\ Apply(i, Eff(Threw(tasks[i]), <<>>, ""))
          /\ UNCHANGED recorder
  /\ UNCHANGED <<pageVars, toolVars, uiVars, clientConnected, clientItems, sessionVars, taskInput>>

\* wavStreamPlayer.interrupt() settled (ConsolePage).
PlayerInterrupted(i, ok) ==
  /\ At(i, {"disconnect"}, "interrupt")
  /\ lastAct' = Act("wavStreamPlayer.interrupt", "")
  /\ Apply(i, Eff(IF ok THEN [tasks[i] EXCEPT !.pc = "done"] ELSE Threw(tasks[i]), <<>>, ""))
  /\ UNCHANGED <<pageVars, toolVars, uiVars, extVars, sessionVars, taskInput>>

(* ------------------------------ send text ------------------------------ *)
SendTextUnchecked(texto, sess, ok) ==
  IF texto = Undefined THEN [out |-> <<>>, status |-> ""]
  ELSE IF sess = Null THEN [out |-> <<>>, status |-> "Error sending text"]
  ELSE [out |-> <<Req("task", sess, texto, Null)>>,
        status |-> IF ok THEN "Sent text" ELSE "Error sending text"]
\* heygenSendText(texto) with sessionInfoRef.current = sess; ok is the outcome
\* of the streaming.task fetch.  `!sessionInfoRef` tests the ref object and is
\* never true; texto.length throws (uncaught, nothing is logged) for an
\* undefined transcript; without a session the read of .session_id throws
\* inside the try and the catch logs 'Error sending text'.
heygenSendText(texto, sess, ok) ==
  IF texto = Undefined THEN [out |-> <<>>, status |-> ""]
  ELSE IF texto = "" THEN [out |-> <<>>, status |-> "No message to be sent"]
  ELSE IF sess = Null THEN [out |-> <<>>, status |-> "Error sending text"]
  ELSE [out |-> <<Req("task", sess, texto, Null)>>,
        status |-> IF ok THEN "Sent text" ELSE "Error sending text"]

\* StreamingSession.sendText(texto): no check of the text; on success the
\* task input is cleared.
sendText(texto, sess, ok) ==
  IF sess = Null THEN [out |-> <<>>, status |-> "Error sending text"]
  ELSE [out |-> <<Req("task", sess, texto, Null)>>,
        status |-> IF ok THEN "Sent text" ELSE "Error sending text"]

\* client.on('conversation.item.completed') of Main: the item's transcript
\* goes to heygenSendText.
ConversationItemCompleted(texto, ok) ==
  /\ page = "Main" /\ hook = "mounted" /\ clientConnected
  /\ lastAct' = Act("heygenSendText", texto)
  /\ out' = heygenSendText(texto, sessionInfoRef, ok).out
  /\ status' = heygenSendText(texto, sessionInfoRef, ok).status
  /\ UNCHANGED <<pageVars, toolVars, uiVars, extVars, sessionVars, tasks, taskInput>>

(* --------------------------- realtime client --------------------------- *)
RealtimeEventOf(ty) == [event |-> [type |-> ty], count |-> 0]
AppendEvent(log, ty) == Append(log, RealtimeEventOf(ty))
\* The updater given to setRealtimeEvents: an event of the type of the last
\* entry bumps that entry's count ((count || 0) + 1), any other is appended.
AggregateEvent(log, ty) ==
  IF Len(log) > 0 /\ log[Len(log)].event.type = ty
  THEN [log EXCEPT ![Len(log)].count = @ + 1]
  ELSE Append(log, RealtimeEventOf(ty))

\* client.on('realtime.event').
RealtimeEvent(ty) ==
  /\ page \in {"Main", "ConsolePage"} /\ hook = "mounted" /\ clientConnected
  /\ Len(arrived) < MaxEvents
  /\ realtimeEvents' = AggregateEvent(realtimeEvents, ty)
  /\ arrived' = Append(arrived, ty)
  /\ lastAct' = Act("realtime.event", "")
  /\ out' = <<>>
  /\ UNCHANGED <<pageVars, toolVars, isConnected, items, turnDetection, extVars,
                 sessionVars, tasks, taskInput>>
  /\ status' = ""

\* client.on('conversation.updated'): setItems(client.conversation.getItems()),
\* the conversation holding at least the item the event is about.  This is the
\* handler run for an item without completed audio, which has no await; the
\* WavRecorder.decode branch, which delays setItems, is left out.
ConversationUpdated ==
  /\ page \in {"Main", "ConsolePage"} /\ hook = "mounted" /\ clientConnected
  /\ clientItems' = "nonempty"
  /\ items' = "nonempty"
  /\ lastAct' = Act("conversation.updated", "")
  /\ out' = <<>>
  /\ UNCHANGED <<pageVars, toolVars, isConnected, realtimeEvents, turnDetection, arrived,
                 clientConnected, recorder, sessionVars, tasks, taskInput>>
  /\ status' = ""

\* The turn-detection toggle of ConsolePage.
changeTurnEndType(value) ==
  /\ page = "ConsolePage" /\ hook = "mounted"
  /\ turnDetection # value
  /\ turnDetection' = value
  /\ lastAct' = Act("changeTurnEndType", "")
  /\ out' = <<>>
  /\ UNCHANGED <<pageVars, toolVars, isConnected, realtimeEvents, items, arrived,
                 extVars, sessionVars, tasks, taskInput>>
  /\ status' = ""

(* --------------------------- peer connection --------------------------- *)
\* pc.ontrack of a live peer connection: its stream becomes the video source.
OnTrack(p) ==
  /\ page \in {"Main", "StreamingSession"} /\ hook = "mounted"
  /\ p \in pcLive /\ srcObject # p
  /\ srcObject' = p
  /\ lastAct' = Act("ontrack", "")
  /\ out' = <<>>
  /\ status' = "Received media stream"
  /\ UNCHANGED <<pageVars, toolVars, uiVars, extVars, sessionInfoRef, peerConnectionRef, pcLive, pcWired,
                 nextSid, tasks, taskInput>>

\* heygenHandleICE(session_id, candidate): one streaming.ice request.
heygenHandleICE(sid, p) == <<Req("ice", sid, "", p)>>

\* onicecandidate of a wired peer connection: the handler reads
\* sessionInfoRef.current.session_id when it fires (throwing without a session).
OnIceCandidate(p) ==
  /\ p \in pcWired
  /\ lastAct' = Act("onicecandidate", "")
  /\ out' = IF sessionInfoRef = Null THEN <<>> ELSE heygenHandleICE(sessionInfoRef, p)
  /\ UNCHANGED <<pageVars, toolVars, uiVars, extVars, sessionVars, tasks, taskInput>>
  /\ status' = ""

(* --------------------------- StreamingSession -------------------------- *)
\* The Start button: handleStart up to the await of streaming.new.
handleStart ==
  /\ page = "StreamingSession" /\ hook = "mounted"
  /\ Len(tasks) < MaxTasks
  /\ LET e == heygenCreateNewSession(NewTask("start")) IN
       /\ tasks' = Append(tasks, e.t)
       /\ out' = e.out
       /\ status' = e.status
  /\ lastAct' = Act("handleStart", "")
  /\ UNCHANGED <<pageVars, toolVars, uiVars, extVars, sessionVars, taskInput>>

\* The Close button: closeSession up to the await of streaming.stop.
closeSession ==
  /\ page = "StreamingSession" /\ hook = "mounted"
  /\ Len(tasks) < MaxTasks
  /\ LET e == heygenCloseSession(NewTask("close")) IN
       /\ tasks' = Append(tasks, [e.t EXCEPT !.pc = IF @ = "closed" THEN "done" ELSE @])
       /\ out' = e.out
       /\ status' = e.status
  /\ lastAct' = Act("closeSession", "")
  /\ UNCHANGED <<pageVars, toolVars, uiVars, extVars, sessionVars, taskInput>>

\* The task input's onChange.
setTaskInput(txt) ==
  /\ page = "StreamingSession" /\ hook = "mounted"
  /\ taskInput # txt
  /\ taskInput' = txt
  /\ lastAct' = Act("setTaskInput", txt)
  /\ out' = <<>>
  /\ UNCHANGED <<pageVars, toolVars, uiVars, extVars, sessionVars, tasks>>
  /\ status' = ""

\* The text the Talk button hands to sendText: onClick={() => sendText('')}.
TalkText(input) == ""

\* The Talk button.
ClickTalk(ok) ==
  /\ page = "StreamingSession" /\ hook = "mounted"
  /\ lastAct' = Act("sendText", TalkText(taskInput))
  /\ LET e == sendText(TalkText(taskInput), sessionInfoRef, ok) IN
       /\ out' = e.out
       /\ status' = e.status
       /\ taskInput' = IF e.status = "Sent text" THEN "" ELSE taskInput
  /\ UNCHANGED <<pageVars, toolVars, uiVars, extVars, sessionVars, tasks>>

\* The streaming.task answer of handleStart's greeting.
GreetingSent(i, ok) ==
  /\ At(i, {"start"}, "task")
  /\ lastAct' = Act("streaming.task", Greeting)
  /\ Apply(i, Eff([tasks[i] EXCEPT !.pc = "done"], <<>>,
                  IF ok THEN "Sent text" ELSE "Error sending text"))
  /\ taskInput' = IF ok THEN "" ELSE taskInput
  /\ UNCHANGED <<pageVars, toolVars, uiVars, extVars, sessionVars>>

(* ------------------------- specifications ------------------------------ *)
TaskIds == 1..MaxTasks

\* The steps of the avatar handshake, shared by useHeygen and StreamingSession.
AvatarStep ==
  \/ \E i \in TaskIds, res \in {"fail", "nodata", "ok"} : NewSessionAnswered(i, res)
  \/ \E i \in TaskIds, ok \in BOOLEAN : RemoteDescriptionSet(i, ok)
  \/ \E i \in TaskIds, ok \in BOOLEAN : AnswerCreated(i, ok)
  \/ \E i \in TaskIds, ok \in BOOLEAN : LocalDescriptionSet(i, ok)
  \/ \E i \in TaskIds, ok \in BOOLEAN : StreamingStarted(i, ok)
  \/ \E i \in TaskIds, ok \in BOOLEAN : SessionStopped(i, ok)
  \/ \E p \in Sids : OnTrack(p)
  \/ \E p \in Sids : OnIceCandidate(p)

\* App renders Main.
Next ==
  \/ Render
  \/ ClickCall
  \/ \E i \in TaskIds, ok \in BOOLEAN : RecorderBegun(i, ok)
  \/ \E i \in TaskIds, ok \in BOOLEAN : ClientConnected(i, ok)
  \/ \E i \in TaskIds, ok \in BOOLEAN : RecorderEnded(i, ok)
  \/ AvatarStep
  \/ \E texto \in {"", "oi", Undefined}, ok \in BOOLEAN : ConversationItemCompleted(texto, ok)
  \/ ConversationUpdated

InitMain == Init /\ page = "Main"
Spec == InitMain /\ [][Next]_vars

\* App renders ConsolePage.
NextConsole ==
  \/ Render
  \/ ClickCall
  \/ \E i \in TaskIds, ok \in BOOLEAN : RecorderBegun(i, ok)
  \/ \E i \in TaskIds, ok \in BOOLEAN : PlayerConnected(i, ok)
  \/ \E i \in TaskIds, ok \in BOOLEAN : ClientConnected(i, ok)
  \/ \E i \in TaskIds, ok \in BOOLEAN : RecordStarted(i, ok)
  \/ \E i \in TaskIds, ok \in BOOLEAN : RecorderEnded(i, ok)
  \/ \E i \in TaskIds, ok \in BOOLEAN : PlayerInterrupted(i, ok)
  \/ \E ty \in EventTypes : RealtimeEvent(ty)
  \/ ConversationUpdated
  \/ \E v \in {"none", "server_vad"} : changeTurnEndType(v)

InitConsole == Init /\ page = "ConsolePage"
SpecConsole == InitConsole /\ [][NextConsole]_vars

\* App renders StreamingSession.
NextStreaming ==
  \/ Render
  \/ handleStart
  \/ closeSession
  \/ AvatarStep
  \/ \E i \in TaskIds, ok \in BOOLEAN : GreetingSent(i, ok)
  \/ \E txt \in {"", "oi"} : setTaskInput(txt)
  \/ \E ok \in BOOLEAN : ClickTalk(ok)

InitStreaming == Init /\ page = "StreamingSession"
SpecStreaming == InitStreaming /\ [][NextStreaming]_vars

(* ------------------------------- tools --------------------------------- *)
MaxResp == 2       \* items in a backend answer

DigitCount == 9    \* \d{9}
Digits == {"0", "1", "2", "3", "4", "5", "6", "7", "8", "9"}
AllDigits(s) == \A k \in 1..Len(s) : s[k] \in Digits
Suffix(s, n) == SubSeq(s, Len(s) - n + 1, Len(s))
SeqsUpTo(S, n) == UNION {[1..k -> S] : k \in 0..n}

\* Whether /(?:\+?55)?(\d{9})$/ has a match that starts at position i: the
\* rest of the string is 9 digits, "55" and 9 digits, or "+55" and 9 digits.
MatchesAt(phone, i) ==
  LET s == SubSeq(phone, i, Len(phone)) IN
    \/ Len(s) = DigitCount /\ AllDigits(s)
    \/ Len(s) = DigitCount + 2 /\ SubSeq(s, 1, 2) = <<"5", "5">> /\ AllDigits(s)
    \/ Len(s) = DigitCount + 3 /\ SubSeq(s, 1, 3) = <<"+", "5", "5">>
                               /\ AllDigits(Suffix(s, DigitCount))

\* phone.replace(regex, '$1'): the leftmost match is replaced by its capture
\* group, the text before the match stays; without a match the phone stays.
formatPhoneNumber(phone) ==
  LET starts == {i \in 1..Len(phone) : MatchesAt(phone, i)} IN
    IF starts = {} THEN phone
    ELSE LET i == CHOOSE m \in starts : \A k \in starts : m <= k IN
           SubSeq(phone, 1, i - 1) \o Suffix(phone, DigitCount)

Body1 == <<"9", "7", "4", "8", "9", "4", "5", "8", "6">>
\* The phones the assistant may pass: 9 digits, with or without a DDD and a
\* country prefix.
PhoneInputs ==
  {c \o d \o Body1 : c \in {<<>>, <<"5", "5">>, <<"+", "5", "5">>},
                      d \in {<<>>, <<"2", "1">>}}
FewPhones == {<<"5", "5">> \o Body1}

Answers(jsons) ==
  {[ok |-> TRUE, status |-> 200, statusText |-> "OK", json |-> j] : j \in jsons}
    \cup {[ok |-> FALSE, status |-> 404, statusText |-> "Not Found", json |-> <<>>],
          [ok |-> FALSE, status |-> 500, statusText |-> "Internal Server Error", json |-> <<>>]}

ResponseNeverRejected(resp) == FALSE
\* if (!result.ok)
ResponseRejected(resp) == ~resp.ok
\* throw new Error(`<prefix>: ${result.status} ${result.statusText}`)
HttpError(prefix, resp) ==
  [threw |-> TRUE, message |-> <<prefix, resp.status, resp.statusText>>]
Returned(v) == [threw |-> FALSE, value |-> v]

Call(name, phone, resp, pesquisa) ==
  [name |-> name, phone |-> phone, resp |-> resp, pesquisa |-> pesquisa]

\* generate_token: the phone is sent as given; a good answer returns "".
generate_token(phone, resp) ==
  /\ hook = "mounted" /\ page \in {"Main", "ConsolePage"}
  /\ toolCall' = Call("generate_token", phone, resp, phone)
  /\ toolResult' = IF ResponseRejected(resp) THEN HttpError("Erro ao enviar OTP", resp)
                   ELSE Returned("")
  /\ UNCHANGED <<pageVars, uiVars, extVars, sessionVars, tasks, out, lastAct, status,
                 taskInput, userData>>

Units ==
  {[st_fantasia_cond |-> "4D imobi", cpf_proprietario |-> "83919163753",
    email_proprietario |-> "a@x", st_unidade_uni |-> "005",
    id_unidade_uni |-> "452", id_condominio_cond |-> "3"],
   [st_fantasia_cond |-> "Solar", cpf_proprietario |-> "83919163753",
    email_proprietario |-> "a@x", st_unidade_uni |-> "101",
    id_unidade_uni |-> "77", id_condominio_cond |-> "9"]}

\* The record get_user_data builds for one item of the answer.
Cond(item, telformatado) ==
  [nome_condominio |-> item.st_fantasia_cond,
   cpf_proprietario |-> item.cpf_proprietario,
   email_proprietario |-> item.email_proprietario,
   unidade_apartamento |-> item.st_unidade_uni,
   id_unidade |-> item.id_unidade_uni,
   id_condominio |-> item.id_condominio_cond,
   telefone |-> telformatado]

arrcondsReversed(json, telformatado) ==
  [k \in 1..Len(json) |-> Cond(json[Len(json) + 1 - k], telformatado)]
arrconds(json, telformatado) == [k \in 1..Len(json) |-> Cond(json[k], telformatado)]

\* get_user_data: search by the formatted phone; ConsolePage also stores the
\* records in userData.phone.
get_user_data(phone, resp) ==
  /\ hook = "mounted" /\ page \in {"Main", "ConsolePage"}
  /\ LET telformatado == formatPhoneNumber(phone) IN
       /\ toolCall' = Call("get_user_data", phone, resp, telformatado)
       /\ IF ResponseRejected(resp)
          THEN /\ toolResult' = HttpError("Erro na requisicao", resp)
               /\ UNCHANGED userData
          ELSE /\ toolResult' = Returned([data |-> arrconds(resp.json, telformatado)])
               /\ userData' = IF page = "ConsolePage"
                              THEN arrconds(resp.json, telformatado) ELSE userData
  /\ UNCHANGED <<pageVars, uiVars, extVars, sessionVars, tasks, out, lastAct, status, taskInput>>

Date1 == [a |-> "11", b |-> "05", y |-> "2024", time |-> " 00:00:00"]
Date2 == [a |-> "12", b |-> "05", y |-> "2024", time |-> ""]
\* .replace(/\s\d{2}:\d{2}:\d{2}/, '').replace(/(\d{2})\/(\d{2})\/(\d{4})/, '$2/$1/$3')
SwapDate(d) == [a |-> d.b, b |-> d.a, y |-> d.y, time |-> ""]

Charge(st, fl, juros, multa) ==
  [json |-> [status |-> st, dt_geracao_recb |-> Date1, dt_vencimento_recb |-> Date2,
             vl_emitido_recb |-> "100.00", nm_txjuros_cond |-> juros,
             nm_txmulta_cond |-> multa, fl_status_recb |-> fl,
             vl_total_recb |-> "102.00", st_pixqrcode_recb |-> "pix",
             link_segundavia |-> "link"]]
Charges ==
  {Charge(Undefined, "3", "1", "2"), Charge("0", "3", "1", "2"),
   Charge("0", "0", "", "2"), Charge("0", "", "1", "")}

\* The record get_payment_link builds for one item with a json.status.
Cobranca(item) ==
  [data_boleto |-> SwapDate(item.json.dt_geracao_recb),
   vencimento |-> SwapDate(item.json.dt_vencimento_recb),
   valor |-> item.json.vl_emitido_recb,
   total |-> item.json.vl_total_recb,
   pix |-> item.json.st_pixqrcode_recb,
   link |-> item.json.link_segundavia]
    @@ (IF item.json.nm_txjuros_cond # "" THEN [juros |-> item.json.nm_txjuros_cond]
        ELSE [x \in {} |-> x])
    @@ (IF item.json.nm_txmulta_cond # "" THEN [multa |-> item.json.nm_txmulta_cond]
        ELSE [x \in {} |-> x])
    @@ (IF item.json.fl_status_recb # ""
        THEN [status |-> IF item.json.fl_status_recb = "3" THEN "Pago" ELSE "Pendente"]
        ELSE [x \in {} |-> x])

arrCobrancasAll(json) == [k \in 1..Len(json) |-> Cobranca(json[k])]
RECURSIVE arrCobrancas(_)
arrCobrancas(json) ==
  IF json = <<>> THEN <<>>
  ELSE (IF json[1].json.status # Undefined THEN <<Cobranca(json[1])>> ELSE <<>>)
         \o arrCobrancas(Tail(json))

\* get_payment_link: the formatted phone is computed and not used.
get_payment_link(phone, resp) ==
  /\ hook = "mounted" /\ page \in {"Main", "ConsolePage"}
  /\ toolCall' = Call("get_payment_link", phone, resp, <<>>)
  /\ toolResult' = IF ResponseRejected(resp) THEN HttpError("Erro na requisicao", resp)
                   ELSE Returned([data |-> arrCobrancas(resp.json)])
  /\ UNCHANGED <<pageVars, uiVars, extVars, sessionVars, tasks, out, lastAct, status,
                 taskInput, userData>>

Contact(tel, fax) ==
  [st_nome_con |-> "Ana", st_nometiporesp_tres |-> "Proprietario",
   st_telefone_con |-> tel, st_fax_con |-> fax, st_cpf_con |-> "83919163753"]
Contacts ==
  {Contact("2133334444", "2155556666"), Contact("", "2155556666"), Contact(Undefined, "")}

Falsy(x) == x \in {"", Undefined}
ContatoNoFax(item) ==
  [nome |-> item.st_nome_con, tipo |-> item.st_nometiporesp_tres,
   telefone |-> item.st_telefone_con, cpf |-> item.st_cpf_con]
\* The record get_contacts builds for one entry of json.contatos.
Contato(item) ==
  [nome |-> item.st_nome_con,
   tipo |-> item.st_nometiporesp_tres,
   telefone |-> IF ~Falsy(item.st_telefone_con) THEN item.st_telefone_con
                ELSE IF ~Falsy(item.st_fax_con) THEN item.st_fax_con ELSE "",
   cpf |-> item.st_cpf_con]

arrContatos(contatos) == [k \in 1..Len(contatos) |-> Contato(contatos[k])]

\* get_contacts: search by the formatted phone; resp.json is json.contatos.
get_contacts(phone, resp) ==
  /\ hook = "mounted" /\ page \in {"Main", "ConsolePage"}
  /\ toolCall' = Call("get_contacts", phone, resp, formatPhoneNumber(phone))
  /\ toolResult' = IF ResponseRejected(resp) THEN HttpError("Erro na requisicao", resp)
                   ELSE Returned([data |-> arrContatos(resp.json)])
  /\ UNCHANGED <<pageVars, uiVars, extVars, sessionVars, tasks, out, lastAct, status,
                 taskInput, userData>>

TokenAnswers == Answers({<<>>})
UserAnswers == Answers(SeqsUpTo(Units, MaxResp))
ChargeAnswers == Answers(SeqsUpTo(Charges, MaxResp))
ContactAnswers == Answers(SeqsUpTo(Contacts, MaxResp))

\* The tools as the realtime client calls them, on a mounted Main or ConsolePage.
NextTools ==
  \/ Render
  \/ \E phone \in FewPhones, resp \in TokenAnswers : generate_token(phone, resp)
  \/ \E phone \in PhoneInputs, resp \in UserAnswers : get_user_data(phone, resp)
  \/ \E phone \in FewPhones, resp \in ChargeAnswers : get_payment_link(phone, resp)
  \/ \E phone \in FewPhones, resp \in ContactAnswers : get_contacts(phone, resp)

InitTools == Init /\ page \in {"Main", "ConsolePage"}
SpecTools == InitTools /\ [][NextTools]_vars

(* ------------------------------ properties ----------------------------- *)
IsOdd(n) == n % 2 = 1
Returns(n, kind) ==
  n \in 1..Len(tasks) /\ tasks[n].kind = kind /\ tasks[n].pc # "done" /\ tasks'[n].pc = "done"

\* C1: in Main the n-th click of the call button runs connectConversation when
\* n is odd and disconnectConversation when n is even, and isConnected is true
\* exactly after an odd number of clicks: it starts false, the button runs
\* connect exactly when it is false, and every click flips it.
C1_CallButtonToggles ==
  /\ isConnected = IsOdd(Len(tasks))
  /\ \A n \in 1..Len(tasks) :
       tasks[n].kind = IF IsOdd(n) THEN "connect" ELSE "disconnect"

C1_Witness ==
  /\ Len(tasks) = 2 /\ ~isConnected
  /\ tasks[1].kind = "connect" /\ tasks[2].kind = "disconnect"

\* C2: a connectConversation of Main in which an avatar step failed never
\* throws out of heygenStart: it is at a later avatar step, at client.connect
\* or past it, it can only have thrown at client.connect itself, and once
\* client.connect succeeded the client is marked connected by it and the
\* 'Ola!' message was sent.
C2_AvatarIsOptional ==
  \A n \in 1..Len(tasks) :
    (tasks[n].kind = "connect" /\ tasks[n].avatarErr) =>
      /\ tasks[n].pc \in {"createAnswer", "setLocal", "start", "clientConnect", "done", "threw"}
      /\ tasks[n].pc = "threw" => tasks[n].threwAt = "clientConnect" /\ ~tasks[n].hello
      /\ tasks[n].pc = "done" => tasks[n].hello

C2_Witness ==
  \E n \in 1..Len(tasks) :
    /\ tasks[n].kind = "connect" /\ tasks[n].avatarErr
    /\ tasks[n].pc = "done" /\ tasks[n].hello /\ clientConnected

\* C3: when a disconnectConversation of Main returns, no other handler being
\* in flight, isConnected is false, realtimeEvents and items are empty, the
\* client is disconnected and the recorder is ended.
C3_DisconnectResets ==
  [][\A n \in 1..Len(tasks) :
       (Returns(n, "disconnect") /\ \A m \in 1..Len(tasks) : m # n => tasks[m].pc = "done") =>
         /\ ~isConnected' /\ realtimeEvents' = <<>> /\ items' = "empty"
         /\ ~clientConnected' /\ recorder' = "ended"]_vars

\* C4: once the streaming.stop request of heygenEnd has settled, the peer
\* connection is closed and peerConnectionRef.current, sessionInfoRef.current
\* and the video's srcObject are null.
C4_EndClearsSession ==
  lastAct.name = "streaming.stop" =>
    /\ sessionInfoRef = Null /\ peerConnectionRef = Null /\ srcObject = Null
    /\ pcLive = {}

\* C5: useHeygen throws its error exactly when a credential is empty, and then
\* no ref holds anything, no peer connection exists, no handler ran and no
\* request was sent; the hook is mounted (its handles returned) only with both
\* credentials non-empty.
C5_BothCredentialsRequired ==
  /\ hook = "threw" =>
       /\ apiKey = "" \/ serverUrl = ""
       /\ status = "Heygen -> Both apiKey and serverUrl are required."
       /\ tasks = <<>> /\ out = <<>>
       /\ sessionInfoRef = Null /\ peerConnectionRef = Null /\ srcObject = Null
       /\ pcLive = {} /\ pcWired = {}
  /\ hook = "mounted" => apiKey # "" /\ serverUrl # ""

C5_Witness ==
  /\ hook = "threw" /\ apiKey = "k" /\ serverUrl = ""
  /\ status = "Heygen -> Both apiKey and serverUrl are required."

\* C6: heygenSendText called while sessionInfoRef.current is null sends no
\* request and reports 'No active session'.
C6_NoSessionReported ==
  (lastAct.name = "heygenSendText" /\ lastAct.texto # Undefined /\ sessionInfoRef = Null) =>
    /\ out = <<>>
    /\ status = "No active session"

\* C7: a heygenSendText('') sends no request and changes neither the session
\* state nor any handler; a heygenSendText of a non-empty text with a session
\* active sends exactly one streaming.task request, with the current
\* session_id and that text.
C7_SendTextRequests ==
  [][lastAct'.name = "heygenSendText" =>
       /\ lastAct'.texto = "" => out' = <<>> /\ UNCHANGED <<sessionVars, tasks>>
       /\ (lastAct'.texto \notin {"", Undefined} /\ sessionInfoRef # Null) =>
            out' = <<Req("task", sessionInfoRef, lastAct'.texto, Null)>>]_vars

C7_Witness ==
  /\ lastAct.name = "heygenSendText" /\ lastAct.texto = "oi"
  /\ sessionInfoRef # Null
  /\ out = <<Req("task", sessionInfoRef, "oi", Null)>>

\* C8: a call of generate_token, get_user_data, get_payment_link or
\* get_contacts that the backend answers with a non-ok status throws an error
\* whose message carries that status and status text, returns no value and
\* leaves userData as it was.
C8_NonOkAnswerThrows ==
  [][(toolCall'.name # "none" /\ ~toolCall'.resp.ok) =>
       /\ toolResult'.threw
       /\ DOMAIN toolResult' = {"threw", "message"}
       /\ toolResult'.message[2] = toolCall'.resp.status
       /\ toolResult'.message[3] = toolCall'.resp.statusText
       /\ userData' = userData]_vars

C8_Witness ==
  /\ page = "ConsolePage" /\ userData # <<>>
  /\ toolCall.name = "get_user_data" /\ toolCall.resp.status = 500
  /\ toolResult.threw /\ toolResult.message[2] = 500

\* The inputs C9 speaks of: 9 digits, after an optional DDD and an optional
\* '55' or '+55'.
ClaimedPhones ==
  {c \o d \o Body1 : c \in {<<>>, <<"5", "5">>, <<"+", "5", "5">>},
                      d \in {<<>>, <<"2", "1">>}}

\* C9: for a phone that ends in 9 digits after an optional DDD and an optional
\* country prefix, the key get_user_data and get_contacts search by, the
\* result of formatPhoneNumber, is those last 9 digits.
C9_LastNineDigits ==
  (toolCall.name \in {"get_user_data", "get_contacts"} /\ toolCall.phone \in ClaimedPhones) =>
    toolCall.pesquisa = Suffix(toolCall.phone, DigitCount)

\* The types of the maximal runs of equal neighbours of a sequence.
RECURSIVE Runs(_)
Runs(seq) ==
  IF Len(seq) <= 1 THEN seq
  ELSE IF seq[1] = seq[2] THEN Runs(Tail(seq))
  ELSE <<seq[1]>> \o Runs(Tail(seq))

\* C10: the realtimeEvents log holds one entry per maximal run of events of
\* one type notified since the last reset, in arrival order, so no two
\* neighbours have the same type.
C10_EventsAggregated ==
  /\ [k \in 1..Len(realtimeEvents) |-> realtimeEvents[k].event.type] = Runs(arrived)
  /\ \A k \in 1..(Len(realtimeEvents) - 1) :
       realtimeEvents[k].event.type # realtimeEvents[k + 1].event.type

C10_Witness ==
  /\ arrived = <<"a", "a", "b">>
  /\ Len(realtimeEvents) = 2
  /\ realtimeEvents[1].event.type = "a" /\ realtimeEvents[2].event.type = "b"

\* C11: a get_user_data call with a good answer returns one record per item
\* of the answer, in the answer's order, each holding that item's six fields
\* under the names of the result and the formatted phone of the call; an empty
\* answer gives an empty list.
C11_OneRecordPerUnit ==
  (toolCall.name = "get_user_data" /\ toolCall.resp.ok) =>
    /\ ~toolResult.threw
    /\ Len(toolResult.value.data) = Len(toolCall.resp.json)
    /\ \A k \in 1..Len(toolCall.resp.json) :
         LET rec == toolResult.value.data[k]
             item == toolCall.resp.json[k]
         IN /\ rec.nome_condominio = item.st_fantasia_cond
            /\ rec.cpf_proprietario = item.cpf_proprietario
            /\ rec.email_proprietario = item.email_proprietario
            /\ rec.unidade_apartamento = item.st_unidade_uni
            /\ rec.id_unidade = item.id_unidade_uni
            /\ rec.id_condominio = item.id_condominio_cond
            /\ rec.telefone = formatPhoneNumber(toolCall.phone)
            /\ DOMAIN rec = {"nome_condominio", "cpf_proprietario", "email_proprietario",
                             "unidade_apartamento", "id_unidade", "id_condominio", "telefone"}

C11_Witness ==
  /\ toolCall.name = "get_user_data" /\ toolCall.resp.ok
  /\ Len(toolCall.resp.json) = 2
  /\ toolCall.resp.json[1].st_unidade_uni = "005"
  /\ toolCall.resp.json[2].st_unidade_uni = "101"
  /\ toolCall.phone = <<"5", "5">> \o Body1
  /\ toolResult.value.data[1].unidade_apartamento = "005"
  /\ toolResult.value.data[2].unidade_apartamento = "101"
  /\ toolResult.value.data[2].telefone = Body1

HasStatus(item) == item.json.status # Undefined

\* C12: a get_payment_link call with a good answer returns one charge per item
\* of the answer that has a json.status, in the answer's order, and none for
\* the others; a charge's status is 'Pago' for fl_status_recb '3', 'Pendente'
\* for any other non-empty value and absent for '', and juros and multa are
\* present exactly when their source fields are not ''.
C12_ChargesOfAnswer ==
  (toolCall.name = "get_payment_link" /\ toolCall.resp.ok) =>
    LET kept == SelectSeq(toolCall.resp.json, HasStatus)
        data == toolResult.value.data
    IN /\ ~toolResult.threw
       /\ Len(data) = Len(kept)
       /\ \A k \in 1..Len(kept) :
            LET src == kept[k].json IN
              /\ data[k].valor = src.vl_emitido_recb
              /\ data[k].total = src.vl_total_recb
              /\ data[k].pix = src.st_pixqrcode_recb
              /\ data[k].link = src.link_segundavia
              /\ ("status" \in DOMAIN data[k]) = (src.fl_status_recb # "")
              /\ src.fl_status_recb = "3" => data[k].status = "Pago"
              /\ src.fl_status_recb \notin {"3", ""} => data[k].status = "Pendente"
              /\ ("juros" \in DOMAIN data[k]) = (src.nm_txjuros_cond # "")
              /\ src.nm_txjuros_cond # "" => data[k].juros = src.nm_txjuros_cond
              /\ ("multa" \in DOMAIN data[k]) = (src.nm_txmulta_cond # "")
              /\ src.nm_txmulta_cond # "" => data[k].multa = src.nm_txmulta_cond

C12_Witness ==
  /\ toolCall.name = "get_payment_link" /\ toolCall.resp.ok
  /\ Len(toolCall.resp.json) = 2
  /\ ~HasStatus(toolCall.resp.json[1])
  /\ HasStatus(toolCall.resp.json[2]) /\ toolCall.resp.json[2].json.fl_status_recb = "0"
  /\ Len(toolResult.value.data) = 1
  /\ toolResult.value.data[1].status = "Pendente"
  /\ "juros" \notin DOMAIN toolResult.value.data[1]

\* C13: a get_contacts call with a good answer returns one record per entry of
\* contatos, in order, with the entry's name, type and cpf; its telefone is
\* st_telefone_con when that is a non-empty string, else st_fax_con when that
\* is one, else '', and so is never undefined.
C13_ContactPhones ==
  (toolCall.name = "get_contacts" /\ toolCall.resp.ok) =>
    LET contatos == toolCall.resp.json
        data == toolResult.value.data
    IN /\ ~toolResult.threw
       /\ Len(data) = Len(contatos)
       /\ \A k \in 1..Len(contatos) :
            /\ data[k].nome = contatos[k].st_nome_con
            /\ data[k].tipo = contatos[k].st_nometiporesp_tres
            /\ data[k].cpf = contatos[k].st_cpf_con
            /\ data[k].telefone # Undefined
            /\ data[k].telefone =
                 IF contatos[k].st_telefone_con \notin {"", Undefined}
                 THEN contatos[k].st_telefone_con
                 ELSE IF contatos[k].st_fax_con \notin {"", Undefined}
                 THEN contatos[k].st_fax_con
                 ELSE ""

C13_Witness ==
  /\ toolCall.name = "get_contacts" /\ toolCall.resp.ok
  /\ Len(toolCall.resp.json) = 2
  /\ toolCall.resp.json[1].st_telefone_con = "" /\ toolCall.resp.json[1].st_fax_con = "2155556666"
  /\ toolCall.resp.json[2].st_telefone_con = Undefined
  /\ toolResult.value.data[1].telefone = "2155556666"
  /\ toolResult.value.data[2].telefone = ""

\* C14: a click on Talk with a session active sends one streaming.task request
\* whose text is the value the task input has at the click, and a request that
\* went through leaves the input empty.
C14_TalkSpeaksInput ==
  [][(lastAct'.name = "sendText" /\ sessionInfoRef # Null) =>
       /\ out' = <<Req("task", sessionInfoRef, taskInput, Null)>>
       /\ status' = "Sent text" => taskInput' = ""]_vars

\* C15: in Main, whenever isConnected is false and every connect and
\* disconnect handler has finished, the realtime client is disconnected, the
\* recorder is ended and no avatar session is open.
C15_IdleWhenDisconnected ==
  (~isConnected /\ \A n \in 1..Len(tasks) : tasks[n].pc = "done") =>
    /\ ~clientConnected
    /\ recorder = "ended"
    /\ sessionInfoRef = Null /\ peerConnectionRef = Null /\ pcLive = {}

\* C16: every streaming.start, streaming.ice and streaming.task request
\* carries the id of the session created last; the answer sent in a
\* streaming.start request was made by the peer connection created for that
\* session, whose setRemoteDescription had succeeded and which is still open.
C16_RequestsOfOneSession ==
  \A k \in 1..Len(out) :
    out[k].ep \in {"start", "ice", "task"} =>
      /\ out[k].sid = nextSid - 1
      /\ out[k].ep = "start" => out[k].sdp = out[k].sid /\ out[k].sid \in pcLive
====
